---- MODULE Spec2Model ----
(***************************************************************************)
(* Optimistic locking of a balance row (ghozilaaa/optimistic-lock).        *)
(*                                                                         *)
(* Two versions of service.UpdateBalance are modelled:                     *)
(*   - the single-attempt one of src/service/balance.go ("single"),        *)
(*   - the retrying one of src/unnamed/part_001 ("retry").                 *)
(* Each invocation is a goroutine that first reads the row (db.First),     *)
(* then issues UPDATE ... WHERE id = ? AND version = ? (db.Updates), and,  *)
(* in the retrying version, sleeps and loops.  The row store is the only   *)
(* shared state; the two database calls are the atomic steps.              *)
(*                                                                         *)
(* Amount is an int64 in the code; the amounts reached here stay far from  *)
(* 2^63, so the arithmetic is that of the integers.                        *)
(***************************************************************************)
EXTENDS Integers, Sequences, FiniteSets, TLC

\* ---------------------------------------------------------------- bounds
NProcs    == 2      \* goroutines that call UpdateBalance
MaxCalls  == 6      \* invocations started in one run
MaxFaults == 1      \* database errors injected in one run
NSamples  == 16     \* values of the random source tried, evenly spread
MaxRows   == 8      \* largest RowsAffected a conditional write may report

\* ------------------------------------------------------ program constants
maxAttempts == 5
Millisecond == 1000000                \* time.Millisecond, a Duration in ns
baseBackoff == 10 * Millisecond

Procs    == 1..NProcs
Variants == {"single", "retry"}
IDs      == {1, 2, 3}           \* identifiers a caller may pass
Seeded   == {1, 2}              \* rows created by db.Create; 3 has no row
IDSets   == {{1}, {3}}          \* the callers of one run pass one identifier,
                                \* balance.ID in every test
Deltas   == {-5, 0, 5}          \* amounts a caller may add
DeltaSets == {{d} : d \in Deltas}   \* the callers of one run pass one amount,
                                    \* as the goroutines of each test do
SeedAmounts == {5}

\* error values, by their text
Nil                == "nil"
ErrRecordNotFound  == "record not found"
ErrStore           == "store error"
ErrConflict        == "conflict: balance updated by another transaction"
ErrExhausted       == "conflict: balance updated by another transaction, retry exhausted"
ErrSuccessfulRetry == "successful retry"
ErrAfterRetries    == "update failed after retries"
Running            == "running"

Errs == {Nil, ErrRecordNotFound, ErrStore, ErrConflict, ErrExhausted,
         ErrSuccessfulRetry, ErrAfterRetries}

\* models.Balance: the zero value of the struct, and a row of the table
Balance(i, a, v) == [ID |-> i, Amount |-> a, Version |-> v]
ZeroBalance      == Balance(0, 0, 0)
NoRow            == [ID |-> 0, Amount |-> 0, Version |-> -1]

VARIABLES
  store,            \* the balances table: id -> row, or NoRow
  pc,               \* where each goroutine is: idle, First, Updates, Sleep
  variant,          \* which UpdateBalance the build holds
  id, delta,        \* the arguments of the running invocation
  attempt,          \* the loop counter of the retrying version
  balance,          \* the local  var balance models.Balance
  originalVersion,  \* the local  originalVersion
  lastErr,          \* the local  lastErr
  result,           \* what the last invocation of the goroutine returned
  ids,              \* the identifiers the callers of this run pass
  deltas,           \* the amounts the callers of this run pass
  calls,            \* invocations started so far
  faults,           \* database errors injected so far
  hist,             \* history of the run, for stating the properties
  timer,            \* the locals backoff, jitter, sleep of one iteration, when
                    \* the sleep computation is looked at on its own
  reply             \* the answer of one conditional write and what the
                    \* invocation returns on it, when looked at on its own

vars == <<store, pc, variant, id, delta, attempt, balance, originalVersion,
          lastErr, result, ids, deltas, calls, faults, hist, timer, reply>>

\* the two are not in use while the goroutines run
NoTimer == [pc |-> "off", attempt |-> 0, backoff |-> 0, jitter |-> 0, sleep |-> 0]
NoReply == [pc |-> "off", err |-> Nil, rows |-> 0, attempt |-> 0, ret |-> Nil]

\* -------------------------------------------------------------- the store

\* a read whose error is not looked at
RowFoundAlways(st, i) == TRUE

\* db.First(&balance, id): the row with that primary key, if any
RowFound(st, i) == i \in DOMAIN st /\ st[i] # NoRow

\* a read made once, before the loop: later attempts reuse the struct
RowReadOnce(st, i, cur, k) == IF k > 1 THEN cur ELSE st[i]

\* var balance models.Balance; db.First(&balance, id): the struct is declared
\* in the loop body and filled from the table in every attempt
RowRead(st, i, cur, k) == st[i]

\* balance.Amount += delta
AddDelta(a, d) == a + d

\* a version that skips a number
NextVersionSkips(v) == v + 2

\* Version: balance.Version + 1
NextVersion(v) == v + 1

\* a WHERE clause that compares with the version being written
WhereNextVersion(st, i, ev) == RowFound(st, i) /\ st[i].Version = ev + 1

\* a WHERE clause that forgot the version
WhereIgnoresVersion(st, i, ev) == RowFound(st, i)

\* WHERE id = ? AND version = ?   (and the primary key of Model(&balance))
WhereMatches(st, i, ev) == RowFound(st, i) /\ st[i].Version = ev

\* result.RowsAffected
RowsAffected(st, i, ev) == IF WhereMatches(st, i, ev) THEN 1 ELSE 0

\* Updates(models.Balance{...}) with a struct: gorm writes only the fields
\* whose value is not the zero value of their type
ColumnWritten(x) == x # 0

\* the row after SET of the non-zero fields
SetColumns(row, a, v) ==
  [row EXCEPT !.Amount  = IF ColumnWritten(a) THEN a ELSE @,
              !.Version = IF ColumnWritten(v) THEN v ELSE @]

\* an UPDATE whose WHERE clause lost the id
UpdatesEveryRow(st, i, ev, a, v) ==
  [j \in DOMAIN st |->
     IF st[j] # NoRow /\ st[j].Version = ev THEN SetColumns(st[j], a, v) ELSE st[j]]

\* the table after UPDATE balances SET ... WHERE id = i AND version = ev
Updates(st, i, ev, a, v) ==
  IF WhereMatches(st, i, ev)
    THEN [st EXCEPT ![i] = SetColumns(@, a, v)]
    ELSE st

\* ------------------------------------------------------ results of a call

\* the affected-row test the wrong way round
SingleReturnInverted(err, rows) ==
  IF err # Nil THEN err
  ELSE IF rows # 0 THEN ErrConflict
  ELSE Nil

\* single-attempt version, after Updates: lines 26-35
SingleReturn(err, rows) ==
  IF err # Nil THEN err
  ELSE IF rows = 0 THEN ErrConflict
  ELSE Nil

\* a success branch that does not return
AttemptFailedAlways(err, rows) == TRUE

\* retrying version: the attempt did not commit (lines 38-42)
AttemptFailed(err, rows) == err # Nil \/ rows = 0

\* a conflict branch that leaves lastErr as it is
AttemptErrUnset(err, rows) == err

\* retrying version: lastErr after a failed attempt (lines 38-42)
AttemptErr(err, rows) == IF err # Nil THEN err ELSE ErrExhausted

\* an error that is kept once set
KeepFirstErr(old, new) == IF old # Nil THEN old ELSE new

\* retrying version:  lastErr = ...  replaces what an earlier attempt left
SetLastErr(old, new) == new

\* retrying version: the value returned by a committed attempt (lines 43-49)
SuccessReturn(k) == IF k > 1 THEN ErrSuccessfulRetry ELSE Nil

\* a loop that gives up one attempt early, and one that never gives up
WillRetryOneLess(k) == k + 1 < maxAttempts
WillRetryAlways(k)  == TRUE
WillRetryInclusive(k) == k <= maxAttempts

\* retrying version:  if attempt < maxAttempts  (line 52)
WillRetry(k) == k < maxAttempts

\* retrying version: after the loop (lines 67-71)
AfterLoop(e) == IF e # Nil THEN e ELSE ErrAfterRetries

\* ---------------------------------------------------------------- history

\* what the callers' error channel holds: the tests count the conflict errors
\* and the other errors, "successful retry" apart (balance_test.go 161-177)
IsConflictErr(e) == e \in {ErrConflict, ErrExhausted}
IsOtherErr(e)    == e \notin {Nil, ErrConflict, ErrExhausted, ErrSuccessfulRetry}

InitHist ==
  [ seed      |-> << >>,                 \* the table as seeded, set in Init
    won       |-> << >>,                 \* expected versions of the writes that
                                         \* affected one row, in order
    sumWon    |-> 0,                     \* sum of the deltas of those writes
    conflicts |-> 0,                     \* invocations that returned a conflict error
    others    |-> 0,                     \* invocations that returned another error
    reads     |-> [p \in Procs |-> 0],   \* of the goroutine's last invocation:
    writes    |-> [p \in Procs |-> 0],   \*   db.First calls, Updates calls,
    zeroRows  |-> [p \in Procs |-> 0],   \*   those that affected no row,
    wrote     |-> [p \in Procs |-> 0],   \*   those that affected one row,
    changed   |-> [p \in Procs |-> 0],   \*   those that changed the table,
    sleeps    |-> [p \in Procs |-> 0],   \*   time.Sleep calls
    wonAtRead |-> [p \in Procs |-> 0],   \* one-row writes of the run at the time
                                         \* of the running invocation's last read
    firstRead |-> -1,                    \* the version the first read returned
    sameRead  |-> TRUE ]                 \* every read so far returned that version

\* ------------------------------------------------------------------- Init

InitRun ==
  /\ \E a \in SeedAmounts :
       store = [i \in IDs |-> IF i \in Seeded THEN Balance(i, a + i - 1, 0) ELSE NoRow]
  /\ hist = [InitHist EXCEPT !.seed = store]
  /\ variant \in Variants
  /\ ids \in IDSets
  /\ deltas \in DeltaSets
  /\ pc = [p \in Procs |-> "idle"]
  /\ id = [p \in Procs |-> 0]
  /\ delta = [p \in Procs |-> 0]
  /\ attempt = [p \in Procs |-> 0]
  /\ balance = [p \in Procs |-> ZeroBalance]
  /\ originalVersion = [p \in Procs |-> 0]
  /\ lastErr = [p \in Procs |-> Nil]
  /\ result = [p \in Procs |-> Nil]
  /\ calls = 0
  /\ faults = 0

Init ==
  /\ InitRun
  /\ timer = NoTimer
  /\ reply = NoReply

\* the invocation of p returns e: its locals are gone
Return(p, e, h) ==
  /\ pc' = [pc EXCEPT ![p] = "idle"]
  /\ result' = [result EXCEPT ![p] = e]
  /\ id' = [id EXCEPT ![p] = 0]
  /\ delta' = [delta EXCEPT ![p] = 0]
  /\ balance' = [balance EXCEPT ![p] = ZeroBalance]
  /\ originalVersion' = [originalVersion EXCEPT ![p] = 0]
  /\ lastErr' = [lastErr EXCEPT ![p] = Nil]
  /\ attempt' = [attempt EXCEPT ![p] = 0]
  /\ hist' = [h EXCEPT !.conflicts = IF IsConflictErr(e) THEN @ + 1 ELSE @,
                       !.others = IF IsOtherErr(e) THEN @ + 1 ELSE @,
                       !.wonAtRead[p] = 0]

\* go func() { err := service.UpdateBalance(db, balance.ID, d) }()
Call(p) ==
  /\ pc[p] = "idle"
  /\ calls < MaxCalls
  /\ \E i \in ids, d \in deltas :
       /\ id' = [id EXCEPT ![p] = i]
       /\ delta' = [delta EXCEPT ![p] = d]
       /\ hist' = [hist EXCEPT !.reads[p] = 0, !.writes[p] = 0,
                               !.zeroRows[p] = 0, !.wrote[p] = 0,
                               !.changed[p] = 0,
                               !.sleeps[p] = 0]
  /\ attempt' = [attempt EXCEPT ![p] = 1]
  /\ lastErr' = [lastErr EXCEPT ![p] = Nil]
  /\ result' = [result EXCEPT ![p] = Running]
  /\ pc' = [pc EXCEPT ![p] = "First"]
  /\ calls' = calls + 1
  /\ UNCHANGED <<store, variant, ids, deltas, balance, originalVersion, faults,
                 timer, reply>>

\* db.First(&balance, id), then originalVersion and balance.Amount += delta.
\* The same lines in both versions: service/balance.go 12-18, part_001 24-30.
First(p) ==
  /\ pc[p] = "First"
  /\ LET h == [hist EXCEPT !.reads[p] = @ + 1]
     IN
     \/ \* the read fails in the database
        /\ faults < MaxFaults
        /\ faults' = faults + 1
        /\ Return(p, ErrStore, h)
     \/ \* no such row
        /\ ~RowFound(store, id[p])
        /\ Return(p, ErrRecordNotFound, h)
        /\ UNCHANGED faults
     \/ /\ RowFound(store, id[p])
        /\ LET row == RowRead(store, id[p], balance[p], attempt[p])
           IN /\ originalVersion' = [originalVersion EXCEPT ![p] = row.Version]
              /\ balance' = [balance EXCEPT ![p] =
                     [row EXCEPT !.Amount = AddDelta(@, delta[p])]]
              /\ hist' = [h EXCEPT
                     !.wonAtRead[p] = Len(h.won),
                     !.firstRead = IF @ = -1 THEN row.Version ELSE @,
                     !.sameRead = @ /\ h.firstRead \in {-1, row.Version}]
        /\ pc' = [pc EXCEPT ![p] = "Updates"]
        /\ UNCHANGED <<id, delta, attempt, lastErr, result, faults>>
  /\ UNCHANGED <<store, variant, ids, deltas, calls, timer, reply>>

\* what the history records of a conditional write by p
Wrote(h, p, err, rows, st) ==
  [h EXCEPT !.writes[p] = @ + 1,
            !.zeroRows[p] = IF err = Nil /\ rows = 0 THEN @ + 1 ELSE @,
            !.wrote[p] = IF err = Nil /\ rows = 1 THEN @ + 1 ELSE @,
            !.changed[p] = IF st # store THEN @ + 1 ELSE @,
            !.won = IF err = Nil /\ rows = 1 THEN Append(@, originalVersion[p]) ELSE @,
            !.sumWon = IF err = Nil /\ rows = 1 THEN @ + delta[p] ELSE @]

\* the rest of the single-attempt version after the write: lines 26-35
SingleAfter(p, err, rows, st) ==
  Return(p, SingleReturn(err, rows), Wrote(hist, p, err, rows, st))

\* the rest of an iteration of the retrying version after the write: lines 38-69
RetryAfter(p, err, rows, st) ==
  IF AttemptFailed(err, rows)
    THEN IF WillRetry(attempt[p])
           THEN /\ lastErr' = [lastErr EXCEPT
                                  ![p] = SetLastErr(@, AttemptErr(err, rows))]
                /\ pc' = [pc EXCEPT ![p] = "Sleep"]
                /\ hist' = Wrote(hist, p, err, rows, st)
                /\ UNCHANGED <<id, delta, attempt, balance,
                               originalVersion, result>>
           ELSE Return(p, AfterLoop(SetLastErr(lastErr[p], AttemptErr(err, rows))),
                       Wrote(hist, p, err, rows, st))
    ELSE Return(p, SuccessReturn(attempt[p]), Wrote(hist, p, err, rows, st))

\* db.Model(&balance).Where("id = ? AND version = ?", ...).Updates(...)
UpdatesStep(p) ==
  /\ pc[p] = "Updates"
  /\ \/ \* the write fails in the database and changes nothing
        /\ faults < MaxFaults
        /\ faults' = faults + 1
        /\ store' = store
        /\ IF variant = "single"
             THEN SingleAfter(p, ErrStore, 0, store')
             ELSE RetryAfter(p, ErrStore, 0, store')
     \/ /\ faults' = faults
        /\ store' = Updates(store, balance[p].ID, originalVersion[p],
                            balance[p].Amount, NextVersion(balance[p].Version))
        /\ LET rows == RowsAffected(store, balance[p].ID, originalVersion[p])
           IN IF variant = "single"
                THEN SingleAfter(p, Nil, rows, store')
                ELSE RetryAfter(p, Nil, rows, store')
  /\ UNCHANGED <<variant, ids, deltas, calls, timer, reply>>

\* time.Sleep(sleep); continue
Sleep(p) ==
  /\ pc[p] = "Sleep"
  /\ attempt' = [attempt EXCEPT ![p] = @ + 1]
  /\ pc' = [pc EXCEPT ![p] = "First"]
  /\ hist' = [hist EXCEPT !.sleeps[p] = @ + 1]
  /\ UNCHANGED <<store, variant, ids, deltas, id, delta, balance, originalVersion,
                 lastErr, result, calls, faults, timer, reply>>

Step(p) == First(p) \/ UpdatesStep(p) \/ Sleep(p)

Next == \E p \in Procs : Call(p) \/ Step(p)

Spec == Init /\ [][Next]_vars

\* the goroutines get to run: the Go scheduler starves no runnable goroutine,
\* and the database answers every call
FairSpec == Init /\ [][Next]_vars /\ \A p \in Procs : WF_vars(Step(p))

\* the variables the goroutines work on
runVars == <<store, pc, variant, id, delta, attempt, balance, originalVersion,
             lastErr, result, ids, deltas, calls, faults, hist>>

\* ------------------------------------- the sleep of one iteration, alone
\* Lines 52-61 of the retrying version, on the attempt number alone.  A
\* time.Duration is an int64 count of nanoseconds; the values below stay
\* under 2^31, so the arithmetic is that of the integers.

\* a backoff that grows by addition
BackoffLinear(k) == baseBackoff * k

\* backoff := baseBackoff * (1 << (attempt - 1))
Backoff(k) == baseBackoff * 2^(k - 1)

\* rnd.Int63n(n), n > 0: any integer of [0, n).  The values tried are the
\* ends, the middle and NSamples evenly spread ones.
Int63n(n) ==
  {0, 1, n \div 2 - 1, n \div 2, n \div 2 + 1, n - 2, n - 1}
    \cup {(n \div NSamples) * j : j \in 0..(NSamples - 1)}

\* jitter := time.Duration(rnd.Int63n(int64(backoff))) - backoff/2
\* (backoff > 0, so Go's truncating division is \div)
Jitter(r, b) == r - b \div 2

\* if sleep < 0 { sleep = 0 }
Clamp(s) == IF s < 0 THEN 0 ELSE s

\* a conflicted attempt, any of the loop, is about to reach line 52
BackoffInit ==
  /\ InitRun
  /\ variant = "retry" /\ ids = {1} /\ deltas = {5}
  /\ reply = NoReply
  /\ \E k \in 1..maxAttempts :
       timer = [NoTimer EXCEPT !.pc = "if", !.attempt = k]

\* if attempt < maxAttempts { backoff := ... }
ComputeBackoff ==
  /\ timer.pc = "if"
  /\ WillRetry(timer.attempt)
  /\ timer' = [timer EXCEPT !.pc = "jitter", !.backoff = Backoff(timer.attempt)]
  /\ UNCHANGED <<runVars, reply>>

\* jitter := ...
DrawJitter ==
  /\ timer.pc = "jitter"
  /\ \E r \in Int63n(timer.backoff) :
       timer' = [timer EXCEPT !.pc = "sleep", !.jitter = Jitter(r, timer.backoff)]
  /\ UNCHANGED <<runVars, reply>>

\* sleep := backoff + jitter
AddJitter ==
  /\ timer.pc = "sleep"
  /\ timer' = [timer EXCEPT !.pc = "clamp", !.sleep = timer.backoff + timer.jitter]
  /\ UNCHANGED <<runVars, reply>>

\* if sleep < 0 { sleep = 0 }; time.Sleep(sleep)
ClampSleep ==
  /\ timer.pc = "clamp"
  /\ timer' = [timer EXCEPT !.pc = "Sleep", !.sleep = Clamp(timer.sleep)]
  /\ UNCHANGED <<runVars, reply>>

BackoffNext == ComputeBackoff \/ DrawJitter \/ AddJitter \/ ClampSleep

BackoffSpec == BackoffInit /\ [][BackoffNext]_vars

\* ------------------------- the answer of one conditional write, alone
\* What an invocation does with result.Error and result.RowsAffected,
\* whatever the database driver reports.

\* retrying version, lines 38-69: what attempt k returns on the answer
\* (err, rows); Running when it goes on to sleep and loop
RetryReturn(err, rows, k) ==
  IF AttemptFailed(err, rows)
    THEN IF WillRetry(k) THEN Running ELSE AfterLoop(AttemptErr(err, rows))
    ELSE SuccessReturn(k)

\* Updates has answered: an error and no row, or no error and a row count
ReplyInit ==
  /\ InitRun
  /\ ids = {1} /\ deltas = {5}
  /\ timer = NoTimer
  /\ \E e \in {Nil, ErrStore}, n \in 0..MaxRows, k \in 1..maxAttempts :
       /\ e # Nil => n = 0
       /\ variant = "single" => k = 1
       /\ reply = [pc |-> "Updates", err |-> e, rows |-> n, attempt |-> k,
                   ret |-> Running]

\* single-attempt version, lines 26-35
SingleReply ==
  /\ variant = "single"
  /\ reply.pc = "Updates"
  /\ reply' = [reply EXCEPT !.pc = "returned",
                            !.ret = SingleReturn(reply.err, reply.rows)]
  /\ UNCHANGED <<runVars, timer>>

\* retrying version, lines 38-69
RetryReply ==
  /\ variant = "retry"
  /\ reply.pc = "Updates"
  /\ LET e == RetryReturn(reply.err, reply.rows, reply.attempt)
     IN reply' = [reply EXCEPT !.pc = IF e = Running THEN "Sleep" ELSE "returned",
                               !.ret = e]
  /\ UNCHANGED <<runVars, timer>>

ReplyNext == SingleReply \/ RetryReply

ReplySpec == ReplyInit /\ [][ReplyNext]_vars

\* ------------------------------------------------------------- properties

AllReturned == \A p \in Procs : pc[p] = "idle"
Range(f)    == {f[k] : k \in DOMAIN f}
Targets     == ids \cap Seeded           \* the one existing record of the run
\* p has just returned from an invocation (and has not started another)
Returned(p) == pc[p] = "idle" /\ hist.reads[p] > 0
\* the step is p's conditional write, answered by the database without error
WriteBy(p)  == pc[p] = "Updates" /\ pc'[p] # "Updates" /\ faults' = faults

\* C1: single-attempt version, N invocations with the same delta d on one
\* existing record: once all have returned (none with a database error), the
\* stored amount is v0 + S*d, S the number that did not return the conflict.
C1_ConservationSingle ==
  (variant = "single" /\ AllReturned /\ hist.others = 0) =>
     \A i \in Targets, d \in deltas :
        store[i].Amount = hist.seed[i].Amount + (calls - hist.conflicts) * d

\* C2: retrying version, N invocations with the same delta d on one existing
\* record: once all have returned the stored amount is v0 + (N - C - E)*d,
\* C the number of retry-exhausted conflicts, E the number of other errors
\* ("successful retry" is not one of them).
C2_ConservationRetry ==
  (variant = "retry" /\ AllReturned) =>
     \A i \in Targets, d \in deltas :
        store[i].Amount =
           hist.seed[i].Amount + (calls - hist.conflicts - hist.others) * d

\* C3: the stored version is the initial version plus the number of
\* conditional writes that affected one row, and every step leaves it as it
\* is or adds exactly 1 to it.
C3_VersionMonotonic ==
  /\ [](\A i \in Seeded :
          store[i].Version =
             hist.seed[i].Version + (IF i \in ids THEN Len(hist.won) ELSE 0))
  /\ [][\A i \in Seeded :
          store'[i].Version \in {store[i].Version, store[i].Version + 1}]_vars

\* C3 witness: two writes have committed and a third affected no row
C3_Witness ==
  /\ Len(hist.won) >= 2
  /\ \E p \in Procs : hist.zeroRows[p] > 0
  /\ \E i \in Targets : store[i].Version = hist.seed[i].Version + 2

\* C4: among the conditional writes issued with the same expected version
\* (all of a run are for the same identifier) at most one affects a row.
C4_OneWinnerPerVersion ==
  \A j, k \in 1..Len(hist.won) : j # k => hist.won[j] # hist.won[k]

\* C4 witness: a retrying invocation has just lost with an expected version
\* with which another write had won
C4_Witness ==
  \E p \in Procs :
     /\ pc[p] = "Sleep"
     /\ hist.zeroRows[p] > 0
     /\ lastErr[p] = ErrExhausted
     /\ originalVersion[p] \in Range(hist.won)

\* C5: an invocation whose write meets no contention (the row still has the
\* version read, first attempt, no database error) returns success and
\* leaves amount v + d and version n + 1, for every d, v + d = 0 included.
C5_EffectOfSuccess ==
  [][\A p \in Procs :
       (WriteBy(p) /\ attempt[p] = 1
          /\ WhereMatches(store, id[p], originalVersion[p]))
       => /\ result'[p] = Nil
          /\ store'[id[p]].Amount = store[id[p]].Amount + delta[p]
          /\ store'[id[p]].Version = store[id[p]].Version + 1]_vars

\* C6: an invocation that returns the conflict (or the retry-exhausted
\* conflict) changed the table in none of its attempts, and a conditional
\* write that affects zero rows leaves the table exactly as it was.
C6_NoMutationByLosers ==
  /\ [](\A p \in Procs :
          (Returned(p) /\ result[p] \in {ErrConflict, ErrExhausted})
             => hist.changed[p] = 0)
  /\ [][\A p \in Procs :
          (WriteBy(p) /\ hist'.zeroRows[p] = hist.zeroRows[p] + 1)
             => store' = store]_vars

\* C6 witness: a loser has returned after another invocation had committed
C6_Witness ==
  \E p \in Procs :
     /\ Returned(p)
     /\ result[p] \in {ErrConflict, ErrExhausted}
     /\ hist.zeroRows[p] > 0
     /\ Len(hist.won) > 0

\* C7: a retrying invocation whose conditional write committed returns nil,
\* on whichever attempt it committed.
C7_UniformSuccess ==
  \A p \in Procs :
     (variant = "retry" /\ Returned(p) /\ hist.wrote[p] > 0) => result[p] = Nil

\* C8: in the retrying version a failed read (not found, or an error) and a
\* conditional write that returns an error end the invocation at once with
\* that failure: no sleep, no further attempt.
C8_NoRetryOfFailures ==
  [][\A p \in Procs :
       (/\ variant = "retry"
        /\ pc[p] \in {"First", "Updates"}
        /\ pc'[p] # pc[p]
        /\ (faults' # faults \/ ~RowFound(store, id[p])))
       => /\ pc'[p] = "idle"
          /\ result'[p] \in {ErrStore, ErrRecordNotFound}]_vars

\* C9: a retrying invocation never makes more than maxAttempts attempts, and
\* one whose write affected zero rows in every attempt made exactly
\* maxAttempts reads and maxAttempts writes and returned retry-exhausted.
C9_ExhaustionBound ==
  variant = "retry" =>
    \A p \in Procs :
       /\ hist.reads[p] <= maxAttempts
       /\ hist.writes[p] <= maxAttempts
       /\ (Returned(p) /\ hist.zeroRows[p] = hist.reads[p])
            => /\ hist.reads[p] = maxAttempts
               /\ hist.writes[p] = maxAttempts
               /\ result[p] = ErrExhausted

\* C9 witness: an invocation has lost maxAttempts rounds and returned
C9_Witness ==
  \E p \in Procs :
     /\ Returned(p)
     /\ result[p] = ErrExhausted
     /\ hist.zeroRows[p] = maxAttempts

\* C10: under weak fairness of each goroutine's steps every invocation
\* returns; the retrying version after at most maxAttempts attempts, the
\* single-attempt version after one read and at most one conditional write.
C10_Termination ==
  /\ \A p \in Procs : (pc[p] # "idle") ~> (pc[p] = "idle")
  /\ [](\A p \in Procs :
          /\ hist.reads[p] <= (IF variant = "retry" THEN maxAttempts ELSE 1)
          /\ hist.writes[p] <= hist.reads[p]
          /\ hist.sleeps[p] < maxAttempts
          /\ Returned(p) => result[p] \in Errs)

\* C10 witness: a retrying invocation has returned after sleeping
\* maxAttempts - 1 times, not every one of its writes a zero-row one
C10_Witness ==
  \E p \in Procs :
     /\ variant = "retry"
     /\ Returned(p)
     /\ hist.sleeps[p] = maxAttempts - 1
     /\ hist.zeroRows[p] < hist.writes[p]
\* C10, the same without fairness: a running invocation always has a step
\* to take, and each of its steps lowers a measure that is never negative,
\* so it takes at most 3 * maxAttempts steps.
StepsLeft(p) ==
  IF pc[p] = "idle" THEN 0
  ELSE 3 * (maxAttempts - attempt[p])
         + (IF pc[p] = "First" THEN 3 ELSE IF pc[p] = "Updates" THEN 2 ELSE 1)

C10_Progress ==
  /\ [](\A p \in Procs :
          /\ StepsLeft(p) >= 0
          /\ pc[p] # "idle" => ENABLED Step(p))
  /\ [][\A p \in Procs :
          (pc[p] # "idle" /\ pc'[p] # pc[p]) => StepsLeft(p)' < StepsLeft(p)]_vars

\* C11: single-attempt version, every invocation of the run read the same
\* version n before any of them wrote (N >= 2, no database error): exactly
\* one returns nil, the other N - 1 return the conflict, the version ends at
\* n + 1 and the amount at the initial amount plus the winner's delta.
C11_CollidingWriters ==
  (/\ variant = "single" /\ AllReturned /\ calls >= 2 /\ faults = 0
   /\ hist.sameRead /\ Targets # {})
  => /\ calls - hist.conflicts - hist.others = 1
     /\ hist.conflicts = calls - 1
     /\ Len(hist.won) = 1
     /\ \A i \in Targets :
          /\ store[i].Version = hist.firstRead + 1
          /\ store[i].Amount = hist.seed[i].Amount + hist.sumWon

\* C12: an invocation on an identifier without a row fails after its read,
\* issues no conditional write, creates no row and changes no row.
C12_MissingRecord ==
  (ids \cap Seeded = {}) =>
     /\ store = hist.seed
     /\ \A p \in Procs :
          /\ pc[p] \notin {"Updates", "Sleep"}
          /\ hist.writes[p] = 0
          /\ Returned(p) => /\ result[p] \in {ErrRecordNotFound, ErrStore}
                            /\ hist.reads[p] = 1

\* C12 witness: an invocation on the missing identifier returned not-found
C12_Witness ==
  /\ ids = {3}
  /\ store[3] = NoRow
  /\ \E p \in Procs : Returned(p) /\ result[p] = ErrRecordNotFound

\* C13: in the retrying version every conditional write follows a read of the
\* same attempt, and the expected version and the amount the delta is added
\* to are those of the row as that read found it.
C13_FreshReadPerAttempt ==
  /\ [](\A p \in Procs :
          (variant = "retry" /\ pc[p] = "Updates") => hist.reads[p] = attempt[p])
  /\ [][\A p \in Procs :
          (variant = "retry" /\ pc[p] = "First" /\ pc'[p] = "Updates")
          => /\ originalVersion'[p] = store[id[p]].Version
             /\ balance'[p].Version = store[id[p]].Version
             /\ balance'[p].Amount = store[id[p]].Amount + delta[p]]_vars

\* C13 witness: a second or later attempt is about to write with a version
\* that no earlier attempt can have read
C13_Witness ==
  \E p \in Procs :
     /\ variant = "retry"
     /\ pc[p] = "Updates"
     /\ attempt[p] >= 2
     /\ originalVersion[p] = store[id[p]].Version
     /\ hist.wonAtRead[p] >= 1

\* C14: a conditional write the database answers without error affects one
\* row iff no write committed since the attempt's read, and zero rows
\* otherwise; the single-attempt version then returns the conflict at once,
\* having read once.
C14_ConflictByVersionGuard ==
  [][\A p \in Procs :
       WriteBy(p) =>
         /\ (hist'.wrote[p] = hist.wrote[p] + 1)
               <=> (Len(hist.won) = hist.wonAtRead[p])
         /\ (hist'.zeroRows[p] = hist.zeroRows[p] + 1)
               <=> (Len(hist.won) > hist.wonAtRead[p])
         /\ (variant = "single" /\ Len(hist.won) > hist.wonAtRead[p])
               => /\ pc'[p] = "idle"
                  /\ result'[p] = ErrConflict
                  /\ hist'.reads[p] = 1]_vars

\* C14 witness: of two single-attempt invocations one committed and the
\* other returned the conflict after one read and one write
C14_Witness ==
  /\ variant = "single"
  /\ \E p, q \in Procs :
       /\ Returned(p) /\ result[p] = ErrConflict
       /\ hist.reads[p] = 1 /\ hist.writes[p] = 1
       /\ Returned(q) /\ result[q] = Nil /\ hist.wrote[q] = 1

\* C15: a retrying invocation commits at most one write and changes the row
\* at most once, and has returned as soon as a write of its affected a row.
C15_OneCommitPerInvocation ==
  variant = "retry" =>
    \A p \in Procs :
       /\ hist.wrote[p] <= 1
       /\ hist.changed[p] <= 1
       /\ hist.wrote[p] = 1 => pc[p] = "idle"

\* C15 witness: an invocation committed on a later attempt and returned
C15_Witness ==
  \E p \in Procs :
     /\ variant = "retry"
     /\ Returned(p)
     /\ hist.wrote[p] = 1
     /\ hist.reads[p] >= 2
     /\ hist.writes[p] = hist.reads[p]

\* C16: in the retrying version a conflicted attempt k is followed by a sleep
\* exactly when k < maxAttempts, the sleep is followed by the read of attempt
\* k + 1, no sleep follows a committed attempt, and an invocation that made
\* a attempts slept a - 1 times.
C16_BackoffBetweenAttempts ==
  /\ [](variant = "retry" =>
          \A p \in Procs :
             /\ pc[p] = "Sleep" => /\ attempt[p] < maxAttempts
                                   /\ hist.wrote[p] = 0
                                   /\ hist.writes[p] = attempt[p]
             /\ pc[p] # "idle" => hist.sleeps[p] = attempt[p] - 1
             /\ Returned(p) => hist.sleeps[p] = hist.reads[p] - 1)
  /\ [][variant = "retry" =>
          \A p \in Procs :
             /\ (WriteBy(p) /\ hist'.zeroRows[p] = hist.zeroRows[p] + 1)
                   => (pc'[p] = "Sleep" <=> attempt[p] < maxAttempts)
             /\ (pc[p] = "Sleep" /\ pc'[p] # "Sleep")
                   => /\ pc'[p] = "First"
                      /\ attempt'[p] = attempt[p] + 1
                      /\ hist'.sleeps[p] = hist.sleeps[p] + 1
                      /\ hist'.reads[p] = hist.reads[p]]_vars

\* C16 witness: an invocation made three attempts and slept twice
C16_Witness ==
  \E p \in Procs :
     /\ variant = "retry"
     /\ Returned(p)
     /\ hist.reads[p] = 3
     /\ hist.sleeps[p] = 2

\* C19: no invocation changes a row whose identifier is not the one it was
\* passed, none creates a row, and no row's identifier changes.
C19_FrameOnOtherRecords ==
  \A i \in IDs :
     /\ i \notin ids => store[i] = hist.seed[i]
     /\ i \in Seeded => store[i].ID = i
     /\ i \notin Seeded => store[i] = NoRow

\* C19 witness: the passed row was written and the other row is as seeded
C19_Witness ==
  /\ ids = {1}
  /\ store[1].Version = hist.seed[1].Version + 2
  /\ store[2] = hist.seed[2]
  /\ store[2].Version = hist.seed[1].Version

\* C20: a retrying invocation can lose every round: it returns the
\* retry-exhausted conflict, with the row present and no database error,
\* only after at least maxAttempts writes of other invocations committed
\* (the witness is the interleaving in which this happens).
C20_NoFairness ==
  \A p \in Procs :
     (Returned(p) /\ result[p] = ErrExhausted /\ faults = 0)
        => /\ hist.zeroRows[p] = maxAttempts
           /\ hist.wrote[p] = 0
           /\ Len(hist.won) >= maxAttempts
           /\ calls >= maxAttempts + 1

\* C20 witness: one invocation lost maxAttempts rounds while another
\* goroutine's invocations committed
C20_Witness ==
  \E p, q \in Procs :
     /\ p # q
     /\ faults = 0
     /\ Returned(p) /\ result[p] = ErrExhausted
     /\ Returned(q) /\ result[q] \in {Nil, ErrSuccessfulRetry}
     /\ Len(hist.won) >= maxAttempts
     /\ \A i \in Targets : store[i] # NoRow

\* C17: for a conflicted attempt k of 1..maxAttempts-1 the backoff is
\* baseBackoff * 2^(k-1), that is 10, 20, 40, 80 ms; for every value of the
\* random source the sleep is within [backoff/2, 1.5*backoff] before the
\* clamp and within [0, 1.5*backoff] after it; every value computed stays
\* within 0..120 ms in size, far inside an int64.
BackoffTable == <<10, 20, 40, 80>>

C17_BackoffAndJitter ==
  LET k == timer.attempt
      b == timer.backoff
  IN /\ timer.pc \in {"jitter", "sleep", "clamp", "Sleep"} =>
          /\ k \in 1..(maxAttempts - 1)
          /\ b = baseBackoff * 2^(k - 1)
          /\ b = BackoffTable[k] * Millisecond
          /\ b <= 80 * Millisecond
     /\ timer.pc \in {"sleep", "clamp", "Sleep"} =>
          /\ 2 * timer.jitter >= -b
          /\ 2 * timer.jitter <= b
     /\ timer.pc = "clamp" =>
          /\ 2 * timer.sleep >= b
          /\ 2 * timer.sleep <= 3 * b
     /\ timer.pc = "Sleep" =>
          /\ timer.sleep >= 0
          /\ 2 * timer.sleep <= 3 * b
          /\ timer.sleep <= 120 * Millisecond

\* C17 witness: attempt maxAttempts - 1 sleeps the least it can, 40 ms
C17_Witness ==
  /\ timer.pc = "Sleep"
  /\ timer.attempt = maxAttempts - 1
  /\ timer.backoff = 80 * Millisecond
  /\ timer.sleep = 40 * Millisecond

\* C18: a conditional write that reports no error and a number of affected
\* rows other than 0 or 1 makes the invocation return the store error.
C18_UnexpectedRowCount ==
  (reply.pc # "off" /\ reply.err = Nil /\ reply.rows \notin {0, 1})
     => /\ reply.pc # "Sleep"
        /\ reply.pc = "returned" => reply.ret = ErrStore

\* C21: on an existing record and with no database error, a conditional
\* write that reaches the store before any write has committed affects one
\* row; so an invocation returns a conflict only after some write committed,
\* and once all N >= 1 invocations have returned at least one has committed
\* and not all of them returned a conflict.
C21_SystemProgress ==
  /\ [][\A p \in Procs :
          (WriteBy(p) /\ faults = 0 /\ Len(hist.won) = 0)
             => /\ hist'.wrote[p] = hist.wrote[p] + 1
                /\ Len(hist'.won) = 1
                /\ store'[id[p]].Version = store[id[p]].Version + 1]_vars
  /\ []((faults = 0 /\ Targets # {}) =>
          /\ hist.conflicts > 0 => Len(hist.won) >= 1
          /\ (AllReturned /\ calls >= 1) =>
                /\ Len(hist.won) >= 1
                /\ hist.conflicts < calls
                /\ hist.conflicts + Len(hist.won) = calls)

\* C21 witness: both goroutines read before either wrote; all invocations
\* have returned, one with a conflict, and one committed
C21_Witness ==
  /\ faults = 0
  /\ AllReturned
  /\ calls = NProcs
  /\ hist.sameRead
  /\ hist.conflicts = calls - 1
  /\ Len(hist.won) = 1

\* C22: in every reachable state the stored amount of the record is its
\* initial amount plus the sum of the deltas of the writes committed so far;
\* all invocations of a run use one delta d, so this is
\* amount = v0 + d * (version - initial version).
C22_AmountVersionInStep ==
  \A i \in Targets :
     /\ store[i].Amount = hist.seed[i].Amount + hist.sumWon
     /\ \A d \in deltas :
          store[i].Amount =
             hist.seed[i].Amount + d * (store[i].Version - hist.seed[i].Version)

\* C23: when an invocation of the retrying version leaves the loop after a
\* failed attempt maxAttempts, it returns the error of that attempt: the
\* store error if its write errored, the retry-exhausted conflict if its
\* write affected no row, whatever lastErr held from earlier attempts.
C23_ErrorAfterLoop ==
  [][\A p \in Procs :
       (/\ variant = "retry"
        /\ pc[p] = "Updates" /\ pc'[p] # "Updates"
        /\ attempt[p] = maxAttempts
        /\ hist'.wrote[p] = hist.wrote[p])
       => /\ pc'[p] = "idle"
          /\ faults' # faults => result'[p] = ErrStore
          /\ faults' = faults => /\ result'[p] = ErrExhausted
                                 /\ hist'.zeroRows[p] = hist.zeroRows[p] + 1]_vars

\* C23 witness: an invocation whose write errored in an earlier attempt
\* lost attempt maxAttempts to a conflict and returned the conflict
C23_Witness ==
  \E p \in Procs :
     /\ variant = "retry"
     /\ Returned(p)
     /\ hist.writes[p] = maxAttempts
     /\ hist.zeroRows[p] = maxAttempts - 1
     /\ hist.wrote[p] = 0
     /\ result[p] = ErrExhausted

\* C24: no invocation returns "update failed after retries": an invocation
\* of the retrying version that leaves the loop without having returned does
\* so after a failed attempt maxAttempts, with lastErr set, and returns it.
C24_DeadFallback ==
  \A p \in Procs :
     /\ result[p] # ErrAfterRetries
     /\ (variant = "retry" /\ Returned(p) /\ hist.wrote[p] = 0
           /\ hist.writes[p] = maxAttempts)
          => result[p] \in {ErrStore, ErrExhausted}

\* C24 witness: an invocation left the loop with the store error of attempt
\* maxAttempts, after conflicts in every earlier attempt
C24_Witness ==
  \E p \in Procs :
     /\ variant = "retry"
     /\ Returned(p)
     /\ hist.writes[p] = maxAttempts
     /\ hist.zeroRows[p] = maxAttempts - 1
     /\ hist.wrote[p] = 0
     /\ result[p] = ErrStore

====
